---- MODULE Spec2Model ----
(***************************************************************************)
(* Checklist completion and time tracking of the Digital QC prototype      *)
(* (web/src/pages/DigitalQCPrototype.tsx).                                  *)
(*                                                                         *)
(* The component's React state (jobId, employeeId, checks, timeLog, tick)  *)
(* and its mutable ref (activeTimerRef) are the variables, with the value  *)
(* the timeSummaryRows memo holds.  One action per event handler, interval *)
(* callback and effect, each with the render React runs after it.  A state *)
(* of the model is what one committed render of the component sees.        *)
(*                                                                         *)
(* Time.  Date.now() is a wall clock in milliseconds.  The code divides    *)
(* every difference of two readings by 1000 and keeps the quotient, a      *)
(* real number of seconds.  Seconds are held here in fixed point, as an    *)
(* integer number of thousandths of a second, so that x ms / 1000 is the   *)
(* fixed-point value x: no fraction is lost.  A handler runs to completion *)
(* within one clock reading.                                               *)
(***************************************************************************)
EXTENDS Integers, Sequences, FiniteSets, TLC

VARIABLES jobId, employeeId, checks, timeLog, activeTimerRef, tick, now,
          effectPending, timeSummaryRows, op

vars == <<jobId, employeeId, checks, timeLog, activeTimerRef, tick, now,
          effectPending, timeSummaryRows, op>>

(* ------------------------------ bounds -------------------------------- *)

\* the clock moves in steps of ClockStepMs milliseconds
ClockStepMs == 30000
\* budget of the operations that grow the state: each increment of the tick
\* counter (startTimer, the interval) and each new entry of the check state
\* takes one unit
MaxOps == 2
\* checkboxes reachable by toggle: the first MaxItemIdx items of a sheet
MaxItemIdx == 1

(* -------------------------- static configuration ----------------------- *)

jobs == <<"61148", "61210", "61325">>

employees == <<"GW", "MZ", "MM", "TG">>

\* Exclude<SheetId, "summary">
Sheets == {"housewire", "integration", "ee"}

housewireItems ==
  << [id |-> "hw-1", isFlag |-> FALSE], [id |-> "hw-2", isFlag |-> FALSE],
     [id |-> "hw-3", isFlag |-> FALSE], [id |-> "hw-4", isFlag |-> FALSE],
     [id |-> "hw-5", isFlag |-> FALSE], [id |-> "hw-6", isFlag |-> FALSE],
     [id |-> "hw-flag", isFlag |-> TRUE] >>

integrationItems ==
  << [id |-> "in-1", isFlag |-> FALSE], [id |-> "in-2", isFlag |-> FALSE],
     [id |-> "in-3", isFlag |-> FALSE], [id |-> "in-4", isFlag |-> FALSE],
     [id |-> "in-5", isFlag |-> FALSE], [id |-> "in-flag", isFlag |-> TRUE] >>

eeItems ==
  << [id |-> "ee-1", isFlag |-> FALSE], [id |-> "ee-2", isFlag |-> FALSE],
     [id |-> "ee-3", isFlag |-> FALSE], [id |-> "ee-4", isFlag |-> FALSE],
     [id |-> "ee-5", isFlag |-> FALSE], [id |-> "ee-flag", isFlag |-> TRUE] >>

itemsOf(sheet) ==
  IF sheet = "housewire" THEN housewireItems
  ELSE IF sheet = "integration" THEN integrationItems
  ELSE eeItems

\* the option values of the Job and Employee selects that are chosen here:
\* two of each, enough to tell a key from one that differs in one component
JobIds == {jobs[1], jobs[2]}
EmployeeIds == {employees[1], employees[2]}

Keys == JobIds \X Sheets \X EmployeeIds

\* the readings of Date.now() that occur: two instants, one step apart
ClockReadings == {0, ClockStepMs}

(* ------------------------------ helpers -------------------------------- *)

\* an object without own properties: {}
EmptyObj == [x \in {} |-> 0]

\* obj[k] = v on a copy of obj
Put(obj, k, v) == [x \in (DOMAIN obj) \cup {k} |-> IF x = k THEN v ELSE obj[x]]

\* activeTimerRef.current = null
Null == [null |-> TRUE]

ActiveTimer(job, sheet, emp, start) ==
  [jobId |-> job, sheetId |-> sheet, employeeId |-> emp, startMs |-> start]

\* the operation that produced the current state (history, not program state)
\* arg: its argument; was: activeTimerRef.current when it began
Op(name, arg, was) == [name |-> name, arg |-> arg, was |-> was]

(* ------------------------------ time log ------------------------------- *)

\* timeLog[job]?.[sheet]?.[emp] ?? 0
stored(log, job, sheet, emp) ==
  IF job \in DOMAIN log
  THEN IF sheet \in DOMAIN log[job]
       THEN IF emp \in DOMAIN log[job][sheet] THEN log[job][sheet][emp] ELSE 0
       ELSE 0
  ELSE 0

\* (Date.now() - active.startMs) / 1000, in thousandths of a second
deltaSecOf(active, t) == t - active.startMs

\* mutant: the delta replaces the existing value
stopUpdaterOverwrite(prev, active, deltaSec) ==
  LET j == active.jobId
      s == active.sheetId
      e == active.employeeId
      n1 == IF j \in DOMAIN prev THEN prev ELSE Put(prev, j, EmptyObj)
      n2 == IF s \in DOMAIN n1[j] THEN n1 ELSE Put(n1, j, Put(n1[j], s, EmptyObj))
  IN  Put(n2, j, Put(n2[j], s, Put(n2[j][s], e, deltaSec)))

\* mutant: the sheet's object is built anew, without its other employees
stopUpdaterFreshSheet(prev, active, deltaSec) ==
  LET j == active.jobId
      s == active.sheetId
      e == active.employeeId
      n1 == IF j \in DOMAIN prev THEN prev ELSE Put(prev, j, EmptyObj)
      n2 == IF s \in DOMAIN n1[j] THEN n1 ELSE Put(n1, j, Put(n1[j], s, EmptyObj))
      existing == IF e \in DOMAIN n2[j][s] THEN n2[j][s][e] ELSE 0
  IN  Put(n2, j, Put(n2[j], s, Put(EmptyObj, e, existing + deltaSec)))

\* the updater stopTimer hands to setTimeLog, applied to the previous log
stopUpdater(prev, active, deltaSec) ==
  LET j == active.jobId
      s == active.sheetId
      e == active.employeeId
      n1 == IF j \in DOMAIN prev THEN prev ELSE Put(prev, j, EmptyObj)
      n2 == IF s \in DOMAIN n1[j] THEN n1 ELSE Put(n1, j, Put(n1[j], s, EmptyObj))
      existing == IF e \in DOMAIN n2[j][s] THEN n2[j][s][e] ELSE 0
  IN  Put(n2, j, Put(n2[j], s, Put(n2[j][s], e, existing + deltaSec)))

\* the previous log as it is after the updater has run on it.  next is a
\* shallow copy: when prev has the timer's job, next[job] is the very object
\* prev[job], and the sheet object the updater creates in it and the seconds
\* it assigns are written into prev as well.
prevAfterUpdater(prev, active, deltaSec) ==
  IF active.jobId \in DOMAIN prev THEN stopUpdater(prev, active, deltaSec)
  ELSE prev

\* the time log after stopTimer() has run with the ref holding `active`
logAfterStop(log, active, t) ==
  IF active = Null THEN log
  ELSE stopUpdater(log, active, deltaSecOf(active, t))

\* mutant: the employee is not compared
getStoredSecondsAnyEmp(log, active, t, job, sheet, emp) ==
  LET base == stored(log, job, sheet, emp)
  IN  IF /\ active # Null
         /\ active.jobId = job
         /\ active.sheetId = sheet
      THEN base + deltaSecOf(active, t)
      ELSE base

\* getStoredSeconds(job, sheet, emp), read at clock reading t
getStoredSecondsAt(log, active, t, job, sheet, emp) ==
  LET base == stored(log, job, sheet, emp)
  IN  IF /\ active # Null
         /\ active.jobId = job
         /\ active.sheetId = sheet
         /\ active.employeeId = emp
      THEN base + deltaSecOf(active, t)
      ELSE base

getStoredSeconds(job, sheet, emp) ==
  getStoredSecondsAt(timeLog, activeTimerRef, now, job, sheet, emp)

\* mutant: the sheet is not compared
isRunningAnySheet(job, sheet, emp) ==
  /\ activeTimerRef # Null
  /\ activeTimerRef.jobId = job
  /\ activeTimerRef.employeeId = emp

\* mutant: the employee is not compared
isRunningAnyEmployee(job, sheet, emp) ==
  /\ activeTimerRef # Null
  /\ activeTimerRef.jobId = job
  /\ activeTimerRef.sheetId = sheet

\* the isRunning prop of a sheet's TimeTracking, for any triple
isRunning(job, sheet, emp) ==
  /\ activeTimerRef # Null
  /\ activeTimerRef.jobId = job
  /\ activeTimerRef.sheetId = sheet
  /\ activeTimerRef.employeeId = emp

(* ----------------------------- time summary --------------------------- *)

\* the UTF-16 code units of the sheet and employee ids
Chars(id) ==
  CASE id = "housewire" -> <<104, 111, 117, 115, 101, 119, 105, 114, 101>>
    [] id = "integration" -> <<105, 110, 116, 101, 103, 114, 97, 116, 105, 111, 110>>
    [] id = "ee" -> <<101, 101>>
    [] id = "GW" -> <<71, 87>>
    [] id = "MZ" -> <<77, 90>>
    [] id = "MM" -> <<77, 77>>
    [] id = "TG" -> <<84, 71>>

\* a.localeCompare(b) on code unit sequences: -1, 0 or 1.  The ids differ
\* first in two letters of the same case, where the locale's order is the
\* order of the code units.
RECURSIVE localeCompare(_, _)
localeCompare(a, b) ==
  IF a = <<>> /\ b = <<>> THEN 0
  ELSE IF a = <<>> THEN -1
  ELSE IF b = <<>> THEN 1
  ELSE IF Head(a) < Head(b) THEN -1
  ELSE IF Head(a) > Head(b) THEN 1
  ELSE localeCompare(Tail(a), Tail(b))

\* mutant: the employee id comes first in the sort key
compareRowsEmpFirst(a, b) ==
  localeCompare(Chars(a.emp) \o Chars(a.sheetId), Chars(b.emp) \o Chars(b.sheetId))

\* the comparator of rows.sort: (a.sheetId + a.emp).localeCompare(b.sheetId + b.emp)
compareRows(a, b) ==
  localeCompare(Chars(a.sheetId) \o Chars(a.emp), Chars(b.sheetId) \o Chars(b.emp))

\* r put into the sorted sequence s, behind the rows that do not compare greater
RECURSIVE insertRow(_, _)
insertRow(s, r) ==
  IF s = <<>> THEN <<r>>
  ELSE IF compareRows(Head(s), r) <= 0 THEN <<Head(s)>> \o insertRow(Tail(s), r)
  ELSE <<r>> \o s

\* rows.sort(comparator): a stable sort
RECURSIVE sortRows(_)
sortRows(rows) ==
  IF rows = <<>> THEN <<>>
  ELSE insertRow(sortRows(SubSeq(rows, 1, Len(rows) - 1)), rows[Len(rows)])

\* Math.round(sec / 60), sec in thousandths of a second
roundMinutes(sec) == (sec + 30000) \div 60000

\* the rows pushed from timeLog[jobId]: one per sheet and employee whose
\* stored seconds are not 0
storedRows(log, job) ==
  IF job \notin DOMAIN log THEN {}
  ELSE { [sheetId |-> p[1], emp |-> p[2], minutes |-> roundMinutes(log[job][p[1]][p[2]])] :
           p \in { q \in (DOMAIN log[job]) \X EmployeeIds :
                     /\ q[2] \in DOMAIN log[job][q[1]]
                     /\ log[job][q[1]][q[2]] # 0 } }

\* the rows of timeSummaryRows before the sort, as a set
rowSet(log, job, active, t) ==
  LET rows == storedRows(log, job)
  IN  IF active # Null /\ active.jobId = job
      THEN LET liveSec == getStoredSecondsAt(log, active, t, job,
                                             active.sheetId, active.employeeId)
               liveMin == roundMinutes(liveSec)
               isActive(r) == r.sheetId = active.sheetId /\ r.emp = active.employeeId
           IN  IF \E r \in rows : isActive(r)
               THEN { IF isActive(r) THEN [r EXCEPT !.minutes = liveMin] ELSE r :
                        r \in rows }
               ELSE IF liveSec > 0
               THEN rows \cup {[sheetId |-> active.sheetId, emp |-> active.employeeId,
                                minutes |-> liveMin]}
               ELSE rows
      ELSE rows

\* the orders in which the rows of S can have been pushed
Orders(S) ==
  { f \in [1..Cardinality(S) -> S] : \A i, j \in 1..Cardinality(S) : f[i] = f[j] => i = j }

\* the body of the timeSummaryRows memo
computeRows(log, job, active, t) ==
  sortRows(CHOOSE f \in Orders(rowSet(log, job, active, t)) : TRUE)

\* the memo after a render: computed anew when one of its dependencies
\* [timeLog, jobId, tick] has changed, the value of the last render if not
memoRows(changed, rows, log, job, active, t) ==
  IF changed THEN computeRows(log, job, active, t) ELSE rows

\* the entries of all three check maps
NumEntries(c) ==
  Cardinality(DOMAIN c["housewire"]) + Cardinality(DOMAIN c["integration"])
    + Cardinality(DOMAIN c["ee"])

\* what is left of the budget MaxOps
BudgetLeft(t, c) == MaxOps - (t + NumEntries(c))

(* ------------------------------ checklists ----------------------------- *)

\* map[i.id] as a condition: a missing entry is undefined, which is falsy
isChecked(map, id) == id \in DOMAIN map /\ map[id]

\* mutant: the quotient is cut off, not rounded
percentFloor(checked, total) ==
  IF total = 0 THEN 0 ELSE (100 * checked) \div total

\* percent(checked, total): Math.round((checked / total) * 100), and 0 when
\* total is 0.  Math.round takes a half up: it is floor(x + 1/2).
percent(checked, total) ==
  IF total = 0 THEN 0 ELSE (200 * checked + total) \div (2 * total)

\* mutant: any checked item flags the sheet
sheetStatsAnyItemFlags(items, map) ==
  LET total == Len(items)
      checked == Cardinality({i \in 1..Len(items) : isChecked(map, items[i].id)})
  IN  [total |-> total, checked |-> checked,
       flagged |-> \E i \in 1..Len(items) : isChecked(map, items[i].id),
       pct |-> percent(checked, total)]

\* the body of the three stats memos: total, checked, flagged and pct of a
\* sheet's items under its check map
sheetStats(items, map) ==
  LET total == Len(items)
      checked == Cardinality({i \in 1..Len(items) : isChecked(map, items[i].id)})
  IN  [total |-> total, checked |-> checked,
       flagged |-> \E i \in 1..Len(items) :
                     items[i].isFlag /\ isChecked(map, items[i].id),
       pct |-> percent(checked, total)]

housewireStats == sheetStats(housewireItems, checks["housewire"])

integrationStats == sheetStats(integrationItems, checks["integration"])

eeStats == sheetStats(eeItems, checks["ee"])

\* the stats shown on a sheet's page
statsOf(sheet) ==
  CASE sheet = "housewire" -> housewireStats
    [] sheet = "integration" -> integrationStats
    [] sheet = "ee" -> eeStats

\* the checkedMap prop of the sheet's Checklist when job and emp are
\* selected: checks[sheet], whatever the job and the employee
checkedMapFor(c, job, sheet, emp) == c[sheet]

\* the stats shown for the sheet when job and emp are selected
statsFor(c, job, sheet, emp) == sheetStats(itemsOf(sheet), checkedMapFor(c, job, sheet, emp))

(* ------------------------------- actions ------------------------------- *)

\* mutant: the ref starts with a timer in it
InitTimerRunning ==
  /\ jobId = jobs[1]
  /\ employeeId = employees[1]
  /\ checks = [s \in Sheets |-> EmptyObj]
  /\ timeLog = EmptyObj
  /\ activeTimerRef = ActiveTimer(jobs[1], "housewire", employees[1], 0)
  /\ tick = 0
  /\ now = 0
  /\ effectPending = TRUE
  /\ timeSummaryRows = <<>>
  /\ op = Op("mount", "", Null)

Init ==
  /\ jobId = jobs[1]
  /\ employeeId = employees[1]
  /\ checks = [s \in Sheets |-> EmptyObj]
  /\ timeLog = EmptyObj
  /\ activeTimerRef = Null
  /\ tick = 0
  /\ now = 0
  /\ effectPending = TRUE
  /\ timeSummaryRows = <<>>
  /\ op = Op("mount", "", Null)

\* mutant: the ref is not cleared
StopTimerKeepsRef ==
  /\ ~effectPending
  /\ timeLog' = logAfterStop(timeLog, activeTimerRef, now)
  /\ op' = Op("stopTimer", "", activeTimerRef)
  /\ UNCHANGED <<jobId, employeeId, checks, activeTimerRef, tick, now, effectPending>>
  /\ timeSummaryRows' = memoRows(activeTimerRef # Null, timeSummaryRows,
                                  timeLog', jobId', activeTimerRef', now')

\* stopTimer(), from a Stop button
StopTimer ==
  /\ ~effectPending
  /\ timeLog' = logAfterStop(timeLog, activeTimerRef, now)
  /\ activeTimerRef' = Null
  /\ op' = Op("stopTimer", "", activeTimerRef)
  /\ UNCHANGED <<jobId, employeeId, checks, tick, now, effectPending>>
  /\ timeSummaryRows' = memoRows(activeTimerRef # Null, timeSummaryRows,
                                  timeLog', jobId', activeTimerRef', now')

\* mutant: a running timer is replaced without being stopped
StartTimerNoStop(sheetId) ==
  /\ ~effectPending
  /\ BudgetLeft(tick, checks) > 0
  /\ activeTimerRef' = ActiveTimer(jobId, sheetId, employeeId, now)
  /\ tick' = tick + 1
  /\ op' = Op("startTimer", sheetId, activeTimerRef)
  /\ UNCHANGED <<jobId, employeeId, checks, timeLog, now, effectPending>>
  /\ timeSummaryRows' = memoRows(TRUE, timeSummaryRows,
                                  timeLog', jobId', activeTimerRef', now')

\* mutant: Start for the key that is already running changes nothing
StartTimerSameKeyNoOp(sheetId) ==
  /\ ~effectPending
  /\ BudgetLeft(tick, checks) > 0
  /\ LET same == isRunning(jobId, sheetId, employeeId)
     IN  /\ timeLog' = IF same THEN timeLog
                       ELSE logAfterStop(timeLog, activeTimerRef, now)
         /\ activeTimerRef' = IF same THEN activeTimerRef
                              ELSE ActiveTimer(jobId, sheetId, employeeId, now)
  /\ tick' = tick + 1
  /\ op' = Op("startTimer", sheetId, activeTimerRef)
  /\ UNCHANGED <<jobId, employeeId, checks, now, effectPending>>
  /\ timeSummaryRows' = memoRows(TRUE, timeSummaryRows,
                                  timeLog', jobId', activeTimerRef', now')

\* mutant: the new timer keeps the start instant of the timer it replaces
StartTimerKeepsStart(sheetId) ==
  /\ ~effectPending
  /\ BudgetLeft(tick, checks) > 0
  /\ timeLog' = logAfterStop(timeLog, activeTimerRef, now)
  /\ activeTimerRef' = ActiveTimer(jobId, sheetId, employeeId,
                                   IF activeTimerRef = Null THEN now
                                   ELSE activeTimerRef.startMs)
  /\ tick' = tick + 1
  /\ op' = Op("startTimer", sheetId, activeTimerRef)
  /\ UNCHANGED <<jobId, employeeId, checks, now, effectPending>>
  /\ timeSummaryRows' = memoRows(TRUE, timeSummaryRows,
                                  timeLog', jobId', activeTimerRef', now')

\* startTimer(sheetId), from a Start button
StartTimer(sheetId) ==
  /\ ~effectPending
  /\ BudgetLeft(tick, checks) > 0
  /\ timeLog' = logAfterStop(timeLog, activeTimerRef, now)
  /\ activeTimerRef' = ActiveTimer(jobId, sheetId, employeeId, now)
  /\ tick' = tick + 1
  /\ op' = Op("startTimer", sheetId, activeTimerRef)
  /\ UNCHANGED <<jobId, employeeId, checks, now, effectPending>>
  /\ timeSummaryRows' = memoRows(TRUE, timeSummaryRows,
                                  timeLog', jobId', activeTimerRef', now')

\* mutant: the check maps are emptied when another job is selected
SetJobClearsChecks(id) ==
  /\ ~effectPending
  /\ id # jobId
  /\ jobId' = id
  /\ checks' = [s \in Sheets |-> EmptyObj]
  /\ effectPending' = TRUE
  /\ op' = Op("setJob", id, activeTimerRef)
  /\ UNCHANGED <<employeeId, timeLog, activeTimerRef, tick, now>>
  /\ timeSummaryRows' = memoRows(TRUE, timeSummaryRows,
                                  timeLog', jobId', activeTimerRef', now')

\* onChange of the Job select: setJobId(e.target.value)
SetJob(id) ==
  /\ ~effectPending
  /\ id # jobId
  /\ jobId' = id
  /\ effectPending' = TRUE
  /\ op' = Op("setJob", id, activeTimerRef)
  /\ UNCHANGED <<employeeId, checks, timeLog, activeTimerRef, tick, now>>
  /\ timeSummaryRows' = memoRows(TRUE, timeSummaryRows,
                                  timeLog', jobId', activeTimerRef', now')

\* mutant: the check maps are emptied when another employee is selected
SetEmployeeClearsChecks(id) ==
  /\ ~effectPending
  /\ id # employeeId
  /\ employeeId' = id
  /\ checks' = [s \in Sheets |-> EmptyObj]
  /\ effectPending' = TRUE
  /\ op' = Op("setEmployee", id, activeTimerRef)
  /\ UNCHANGED <<jobId, timeLog, activeTimerRef, tick, now>>
  /\ timeSummaryRows' = memoRows(FALSE, timeSummaryRows,
                                  timeLog', jobId', activeTimerRef', now')

\* onChange of the Employee select: setEmployeeId(e.target.value)
SetEmployee(id) ==
  /\ ~effectPending
  /\ id # employeeId
  /\ employeeId' = id
  /\ effectPending' = TRUE
  /\ op' = Op("setEmployee", id, activeTimerRef)
  /\ UNCHANGED <<jobId, checks, timeLog, activeTimerRef, tick, now>>
  /\ timeSummaryRows' = memoRows(FALSE, timeSummaryRows,
                                  timeLog', jobId', activeTimerRef', now')

\* mutant: the elapsed time is committed under the job and employee now
\* selected, not under those the timer was started with
ContextEffectNewKey ==
  /\ effectPending
  /\ timeLog' = IF activeTimerRef = Null THEN timeLog
                ELSE stopUpdater(timeLog,
                       ActiveTimer(jobId, activeTimerRef.sheetId, employeeId,
                                   activeTimerRef.startMs),
                       deltaSecOf(activeTimerRef, now))
  /\ activeTimerRef' = Null
  /\ effectPending' = FALSE
  /\ op' = Op("effect", "", activeTimerRef)
  /\ UNCHANGED <<jobId, employeeId, checks, tick, now>>
  /\ timeSummaryRows' = memoRows(activeTimerRef # Null, timeSummaryRows,
                                  timeLog', jobId', activeTimerRef', now')

\* mutant: the effect clears the ref and leaves the time log for later
ContextEffectClearsOnly ==
  /\ effectPending
  /\ activeTimerRef' = Null
  /\ effectPending' = FALSE
  /\ op' = Op("effect", "", activeTimerRef)
  /\ UNCHANGED <<jobId, employeeId, checks, timeLog, tick, now>>
  /\ timeSummaryRows' = memoRows(activeTimerRef # Null, timeSummaryRows,
                                  timeLog', jobId', activeTimerRef', now')

\* mutant: the effect leaves the running timer alone
ContextEffectNoStop ==
  /\ effectPending
  /\ effectPending' = FALSE
  /\ op' = Op("effect", "", activeTimerRef)
  /\ UNCHANGED <<jobId, employeeId, checks, timeLog, activeTimerRef, tick, now>>
  /\ timeSummaryRows' = memoRows(FALSE, timeSummaryRows,
                                  timeLog', jobId', activeTimerRef', now')

\* useEffect(..., [jobId, employeeId]): runs after the render that mounted
\* the component or changed jobId / employeeId
ContextEffect ==
  /\ effectPending
  /\ timeLog' = logAfterStop(timeLog, activeTimerRef, now)
  /\ activeTimerRef' = Null
  /\ effectPending' = FALSE
  /\ op' = Op("effect", "", activeTimerRef)
  /\ UNCHANGED <<jobId, employeeId, checks, tick, now>>
  /\ timeSummaryRows' = memoRows(activeTimerRef # Null, timeSummaryRows,
                                  timeLog', jobId', activeTimerRef', now')

\* mutant: the interval folds the elapsed time into the time log
TickAccumulates ==
  /\ ~effectPending
  /\ BudgetLeft(tick, checks) > 0
  /\ tick' = IF activeTimerRef # Null THEN tick + 1 ELSE tick
  /\ timeLog' = logAfterStop(timeLog, activeTimerRef, now)
  /\ op' = Op("tick", "", activeTimerRef)
  /\ UNCHANGED <<jobId, employeeId, checks, activeTimerRef, now, effectPending>>
  /\ timeSummaryRows' = memoRows(activeTimerRef # Null, timeSummaryRows,
                                  timeLog', jobId', activeTimerRef', now')

\* mutant: the interval clears the ref
TickClearsRef ==
  /\ ~effectPending
  /\ BudgetLeft(tick, checks) > 0
  /\ tick' = IF activeTimerRef # Null THEN tick + 1 ELSE tick
  /\ activeTimerRef' = Null
  /\ op' = Op("tick", "", activeTimerRef)
  /\ UNCHANGED <<jobId, employeeId, checks, timeLog, now, effectPending>>
  /\ timeSummaryRows' = memoRows(activeTimerRef # Null, timeSummaryRows,
                                  timeLog', jobId', activeTimerRef', now')

\* the setInterval callback
Tick ==
  /\ ~effectPending
  /\ BudgetLeft(tick, checks) > 0
  /\ tick' = IF activeTimerRef # Null THEN tick + 1 ELSE tick
  /\ op' = Op("tick", "", activeTimerRef)
  /\ UNCHANGED <<jobId, employeeId, checks, timeLog, activeTimerRef, now, effectPending>>
  /\ timeSummaryRows' = memoRows(activeTimerRef # Null, timeSummaryRows,
                                  timeLog', jobId', activeTimerRef', now')


\* mutant: the entry is set in the map of every sheet
ToggleEverySheet(sheet, id, next) ==
  /\ ~effectPending
  /\ checks' = [s \in Sheets |-> Put(checks[s], id, next)]
  /\ op' = [name |-> "toggle", arg |-> sheet, was |-> activeTimerRef,
            id |-> id, next |-> next]
  /\ UNCHANGED <<jobId, employeeId, timeLog, activeTimerRef, tick, now, effectPending>>
  /\ timeSummaryRows' = memoRows(FALSE, timeSummaryRows,
                                  timeLog', jobId', activeTimerRef', now')

\* toggle(sheet, id, next), from a checkbox of the sheet
Toggle(sheet, id, next) ==
  /\ ~effectPending
  /\ checks' = [checks EXCEPT ![sheet] = Put(checks[sheet], id, next)]
  /\ op' = [name |-> "toggle", arg |-> sheet, was |-> activeTimerRef,
            id |-> id, next |-> next]
  /\ UNCHANGED <<jobId, employeeId, timeLog, activeTimerRef, tick, now, effectPending>>
  /\ timeSummaryRows' = memoRows(FALSE, timeSummaryRows,
                                  timeLog', jobId', activeTimerRef', now')

\* the wall clock moves on between two events
ClockAdvance ==
  /\ ~effectPending
  /\ now + ClockStepMs \in ClockReadings
  /\ now' = now + ClockStepMs
  /\ op' = Op("clockAdvance", "", activeTimerRef)
  /\ UNCHANGED <<jobId, employeeId, checks, timeLog, activeTimerRef, tick, effectPending,
               timeSummaryRows>>

\* the wall clock is set back between two events (Date.now() is not monotonic)
ClockRegress ==
  /\ ~effectPending
  /\ now - ClockStepMs \in ClockReadings
  /\ now' = now - ClockStepMs
  /\ op' = Op("clockRegress", "", activeTimerRef)
  /\ UNCHANGED <<jobId, employeeId, checks, timeLog, activeTimerRef, tick, effectPending,
               timeSummaryRows>>

Next ==
  \/ StopTimer
  \/ \E sheetId \in Sheets : StartTimer(sheetId)
  \/ \E id \in JobIds : SetJob(id)
  \/ \E id \in EmployeeIds : SetEmployee(id)
  \/ ContextEffect
  \/ Tick
  \/ \E sheet \in Sheets : \E i \in 1..MaxItemIdx : \E next \in BOOLEAN :
       /\ i <= Len(itemsOf(sheet))
       /\ Toggle(sheet, itemsOf(sheet)[i].id, next)
       /\ BudgetLeft(tick, checks') >= 0
  \/ ClockAdvance
  \/ ClockRegress

Spec == Init /\ [][Next]_vars

(* -------------------------- the buttons of a sheet --------------------- *)

\* disabled of the sheet's Start button: the isRunning prop
startDisabled(sheet) == isRunning(jobId, sheet, employeeId)

\* mutant: the Stop button is never disabled
stopNeverDisabled(sheet) == FALSE

\* disabled of the sheet's Stop button: !isRunning
stopDisabled(sheet) == ~isRunning(jobId, sheet, employeeId)

\* a click on the sheet's Start button: onStart, unless disabled
ClickStart(sheet) == ~startDisabled(sheet) /\ StartTimer(sheet)

\* a click on the sheet's Stop button: onStop, unless disabled
ClickStop(sheet) == ~stopDisabled(sheet) /\ StopTimer

\* the component driven through its controls only
NextUI ==
  \/ \E sheet \in Sheets : ClickStop(sheet)
  \/ \E sheet \in Sheets : ClickStart(sheet)
  \/ \E id \in JobIds : SetJob(id)
  \/ \E id \in EmployeeIds : SetEmployee(id)
  \/ ContextEffect
  \/ Tick
  \/ \E sheet \in Sheets : \E i \in 1..MaxItemIdx : \E next \in BOOLEAN :
       /\ i <= Len(itemsOf(sheet))
       /\ Toggle(sheet, itemsOf(sheet)[i].id, next)
       /\ BudgetLeft(tick, checks') >= 0
  \/ ClockAdvance
  \/ ClockRegress

SpecUI == Init /\ [][NextUI]_vars

\* the checkboxes the checklist exploration toggles: the first MaxItemIdx
\* items of a sheet and its flag item
Checkable(sheet) ==
  {i \in 1..Len(itemsOf(sheet)) : i <= MaxItemIdx \/ itemsOf(sheet)[i].isFlag}

\* the checklists alone: the mount effect, then any toggles
NextChecks ==
  \/ ContextEffect
  \/ \E sheet \in Sheets : \E i \in Checkable(sheet) : \E next \in BOOLEAN :
       Toggle(sheet, itemsOf(sheet)[i].id, next)

SpecChecks == Init /\ [][NextChecks]_vars

\* an item id that no sheet's item list holds
UnknownItemId == "zz-1"

\* the item ids toggle is called with as a function: the first housewire
\* item's, for its own and for the other sheets, and an unknown one
CallIds == {housewireItems[1].id, UnknownItemId}

\* toggle called as a function, with any sheet and any of the CallIds
NextToggleCalls ==
  \/ ContextEffect
  \/ \E sheet \in Sheets : \E id \in CallIds : \E next \in BOOLEAN :
       Toggle(sheet, id, next)

SpecToggleCalls == Init /\ [][NextToggleCalls]_vars

(* ------------------------- vocabulary of the claims -------------------- *)

\* the (job, sheet, employee) key of a running timer
keyOf(active) == <<active.jobId, active.sheetId, active.employeeId>>

\* committed(job, sheet, employee): what a time log holds for the key
committedIn(log, k) == stored(log, k[1], k[2], k[3])

committed(k) == committedIn(timeLog, k)

\* live(job, sheet, employee): what a render shows for the key
liveIn(log, active, t, k) == getStoredSecondsAt(log, active, t, k[1], k[2], k[3])

live(k) == getStoredSeconds(k[1], k[2], k[3])

\* isRunning(job, sheet, employee) for the ref holding `active`
runningIn(active, k) == active # Null /\ keyOf(active) = k

\* the keys isRunning holds of
RunningKeys == {k \in Keys : isRunning(k[1], k[2], k[3])}

\* the step is a stop of a running timer: stopTimer() itself, or the one
\* performed inside startTimer or inside the context effect
StopsRunning ==
  /\ activeTimerRef # Null
  /\ op'.name \in {"stopTimer", "startTimer", "effect"}

(* -------------------------------- claims ------------------------------- *)

\* C1: in every reachable state at most one timer is active across all
\* jobs, sheets and employees: the registry is Idle (isRunning holds of no
\* key) or Running for exactly one key, the key of the timer in the ref.
C1_SingleActiveTimer ==
  /\ Cardinality(RunningKeys) <= 1
  /\ activeTimerRef = Null => RunningKeys = {}
  /\ activeTimerRef # Null => RunningKeys = {keyOf(activeTimerRef)}

\* a start has replaced a timer that was running for another key
C1_Witness ==
  /\ op.name = "startTimer"
  /\ op.was # Null
  /\ activeTimerRef # Null
  /\ keyOf(op.was) # keyOf(activeTimerRef)
  /\ RunningKeys = {keyOf(activeTimerRef)}

C3_StopCommitsDelta ==
  [][ (op'.name = "stopTimer" /\ activeTimerRef # Null)
      => LET k0 == keyOf(activeTimerRef)
         IN  /\ committedIn(timeLog', k0) =
                  committed(k0) + (now - activeTimerRef.startMs)
             /\ \A k \in Keys \ {k0} : committedIn(timeLog', k) = committed(k)
             /\ activeTimerRef' = Null ]_vars

\* a stop has added a step to an entry that held a step already, while
\* another key holds time too
C3_Witness ==
  /\ op.name = "stopTimer"
  /\ op.was # Null
  /\ activeTimerRef = Null
  /\ now - op.was.startMs = ClockStepMs
  /\ committed(keyOf(op.was)) = 2 * ClockStepMs

\* C4: when the job or the employee is changed while a timer runs, then once
\* the switch has completed (the context effect has run) the time elapsed
\* since the timer's start is committed to the old key, no timer is running,
\* and neither step of the switch changes the committed or live value of a
\* key under the new job and employee.
C4_ContextSwitchCommits ==
  [][ /\ (op'.name = "effect" /\ activeTimerRef # Null)
         => LET k0 == keyOf(activeTimerRef)
            IN  /\ committedIn(timeLog', k0) =
                     committed(k0) + (now - activeTimerRef.startMs)
                /\ activeTimerRef' = Null
      /\ op'.name \in {"setJob", "setEmployee", "effect"}
         => \A k \in Keys :
              (k[1] = jobId' /\ k[3] = employeeId')
              => /\ committedIn(timeLog', k) = committed(k)
                 /\ liveIn(timeLog', activeTimerRef', now', k) = live(k) ]_vars

\* the effect after a job switch has stopped a timer that ran for one step,
\* while the new job already holds committed time
C4_Witness ==
  /\ op.name = "effect"
  /\ op.was # Null
  /\ op.was.jobId # jobId
  /\ activeTimerRef = Null
  /\ now - op.was.startMs = ClockStepMs
  /\ committed(keyOf(op.was)) = ClockStepMs
  /\ \E k \in Keys : k[1] = jobId /\ k[3] = employeeId /\ committed(k) # 0

\* C5: setJob and setEmployee stop the running timer before the context
\* value changes: no render sees the current job or employee at its new
\* value while a timer started under the previous one is still in the ref.
C5_StoppedBeforeSwitch ==
  activeTimerRef # Null
  => (activeTimerRef.jobId = jobId /\ activeTimerRef.employeeId = employeeId)

\* C6: the periodic tick leaves the ledger and the active timer (key and
\* start instant) unchanged, and the live value of every key, read again
\* at the same clock reading, is the same before and after it.
C6_TickIsReadOnly ==
  [][ op'.name = "tick"
      => /\ timeLog' = timeLog
         /\ activeTimerRef' = activeTimerRef
         /\ now' = now
         /\ \A k \in Keys :
              liveIn(timeLog', activeTimerRef', now', k) = live(k) ]_vars

\* the interval fired while a timer had been running for one clock step
C6_Witness ==
  /\ op.name = "tick"
  /\ op.was # Null
  /\ activeTimerRef = op.was
  /\ now - activeTimerRef.startMs = ClockStepMs
  /\ live(keyOf(activeTimerRef)) = committed(keyOf(activeTimerRef)) + ClockStepMs
  /\ tick = 2

\* C7: for every key, live(key) is committed(key) plus now - start when the
\* active timer's job, sheet and employee all match the key, and
\* committed(key) otherwise (Idle, or Running for another key).
C7_LiveIsCommittedPlusElapsed ==
  \A k \in Keys :
    live(k) = committed(k)
              + (IF runningIn(activeTimerRef, k)
                 THEN now - activeTimerRef.startMs ELSE 0)

\* a timer has run for one step while a key that differs from it only in
\* the employee holds committed time
C7_Witness ==
  /\ activeTimerRef # Null
  /\ now - activeTimerRef.startMs = ClockStepMs
  /\ live(keyOf(activeTimerRef)) = committed(keyOf(activeTimerRef)) + ClockStepMs
  /\ \E k \in Keys :
       /\ k[1] = activeTimerRef.jobId
       /\ k[2] = activeTimerRef.sheetId
       /\ k[3] # activeTimerRef.employeeId
       /\ committed(k) # 0
       /\ live(k) = committed(k)

\* C8: for every key the committed value is non-negative and never
\* decreases, and it changes only in a step that stops a timer running for
\* that key.
C8_LedgerMonotone ==
  [][ \A k \in Keys :
        /\ committedIn(timeLog', k) >= 0
        /\ committedIn(timeLog', k) >= committed(k)
        /\ committedIn(timeLog', k) # committed(k)
           => (StopsRunning /\ keyOf(activeTimerRef) = k) ]_vars

\* C9: a stop whose clock reading is earlier than the timer's start commits
\* a delta clamped to 0: the key's ledger value is not reduced and the
\* registry becomes Idle.
C9_NegativeDeltaClamped ==
  [][ ( /\ op'.name = "stopTimer"
        /\ activeTimerRef # Null
        /\ now < activeTimerRef.startMs )
      => /\ committedIn(timeLog', keyOf(activeTimerRef))
              = committed(keyOf(activeTimerRef))
         /\ activeTimerRef' = Null ]_vars

\* C10: stopTimer while Idle is a no-op: the ledger, the registry, the
\* check state and the rest of the component state are unchanged; a stop
\* that follows a stop leaves the ledger as the first stop left it.
C10_StopWhileIdleIsNoOp ==
  [][ /\ (op'.name = "stopTimer" /\ activeTimerRef = Null)
         => UNCHANGED <<timeLog, activeTimerRef, checks, jobId, employeeId,
                        tick, now, effectPending>>
      /\ (op'.name = "stopTimer" /\ op.name = "stopTimer")
         => timeLog' = timeLog ]_vars

\* a stop found the registry Idle, with a committed step in the ledger
C10_Witness ==
  /\ op.name = "stopTimer"
  /\ op.was = Null
  /\ activeTimerRef = Null
  /\ \E k \in Keys : committed(k) = ClockStepMs

(* ---------------------------------- C11 -------------------------------- *)

\* C11: startTimer called while a timer is running for the same (job, sheet,
\* employee) key is not a no-op: the time elapsed so far is added to the
\* key's entry of the time log, and the ref then holds a timer of the same
\* key whose start instant is the current clock reading.
C11_RestartSameKey ==
  [][(/\ op'.name = "startTimer"
      /\ activeTimerRef # Null
      /\ keyOf(activeTimerRef) = <<jobId, op'.arg, employeeId>>)
     => LET A == keyOf(activeTimerRef)
        IN  /\ committedIn(timeLog', A) = committed(A) + (now - activeTimerRef.startMs)
            /\ activeTimerRef' # Null
            /\ keyOf(activeTimerRef') = A
            /\ activeTimerRef'.startMs = now']_vars

\* a timer was restarted for its own key ClockStepMs after its start: the
\* entry holds the elapsed time and the new timer starts at the clock reading
C11_Witness ==
  /\ op.name = "startTimer"
  /\ op.was # Null
  /\ activeTimerRef # Null
  /\ keyOf(op.was) = keyOf(activeTimerRef)
  /\ op.was.startMs = 0
  /\ activeTimerRef.startMs = ClockStepMs
  /\ committed(keyOf(activeTimerRef)) = ClockStepMs
  /\ now = ClockStepMs

(* ---------------------------------- C12 -------------------------------- *)

\* C12: start, stop and the context switch are atomic for the renders and
\* their queries: the render after a step that clears or replaces a running
\* timer sees the elapsed time already in the time log.  No key's live value
\* changes in such a step, the key that was running shows as committed what
\* it showed live, and the summary of that render is computed from the new
\* time log and ref.
C12_NoTornStop ==
  [][StopsRunning
     => /\ \A k \in Keys : liveIn(timeLog', activeTimerRef', now', k) = live(k)
        /\ committedIn(timeLog', keyOf(activeTimerRef)) = live(keyOf(activeTimerRef))
        /\ ~runningIn(activeTimerRef', keyOf(activeTimerRef))
             \/ activeTimerRef'.startMs = now'
        /\ timeSummaryRows' = computeRows(timeLog', jobId', activeTimerRef', now')]_vars

\* the render after the context effect has stopped a timer that had run for
\* ClockStepMs: the ref is cleared and the key shows the elapsed time
C12_Witness ==
  /\ op.name = "effect"
  /\ op.was # Null
  /\ activeTimerRef = Null
  /\ now - op.was.startMs = ClockStepMs
  /\ live(keyOf(op.was)) = ClockStepMs
  /\ keyOf(op.was)[1] = jobId
  /\ Len(timeSummaryRows) = 1
  /\ timeSummaryRows[1].minutes = roundMinutes(ClockStepMs)

(* ---------------------------------- C13 -------------------------------- *)

\* the sum of the committed seconds of the keys of S
RECURSIVE sumCommitted(_, _)
sumCommitted(log, S) ==
  IF S = {} THEN 0
  ELSE LET k == CHOOSE x \in S : TRUE
       IN  committedIn(log, k) + sumCommitted(log, S \ {k})

\* all committed seconds plus the elapsed time of the running timer
accountedIn(log, active, t) ==
  sumCommitted(log, Keys) + (IF active = Null THEN 0 ELSE deltaSecOf(active, t))

\* C13: no time is dropped or counted twice.  The committed seconds of all
\* keys plus the elapsed time of the running timer grow by exactly the time
\* the clock moves on while a timer is running, and no start, stop, restart,
\* timer switch, job or employee switch, tick or toggle changes the sum: with
\* a clock that never goes back the sum is the total time a timer has run.
C13_NoTimeLostOrDoubled ==
  [][/\ op'.name \notin {"clockAdvance", "clockRegress"}
          => accountedIn(timeLog', activeTimerRef', now')
               = accountedIn(timeLog, activeTimerRef, now)
     /\ op'.name = "clockAdvance"
          => accountedIn(timeLog', activeTimerRef', now')
               = accountedIn(timeLog, activeTimerRef, now)
                   + (IF activeTimerRef = Null THEN 0 ELSE now' - now)]_vars

\* a timer ran for ClockStepMs, another sheet's timer replaced it, and the job
\* was switched at once: ClockStepMs under the first key, 0 under the second
C13_Witness ==
  /\ op.name = "effect"
  /\ op.was # Null
  /\ op.was.startMs = now
  /\ op.was.jobId # jobId
  /\ committed(keyOf(op.was)) = 0
  /\ \E k \in Keys : k # keyOf(op.was) /\ committed(k) = ClockStepMs
  /\ accountedIn(timeLog, activeTimerRef, now) = ClockStepMs

(* ---------------------------------- C14 -------------------------------- *)

\* C14: isRunning(job, sheet, employee) is true exactly when a timer is in
\* the ref and its job, sheet and employee all equal the queried triple: it
\* is false for every triple when no timer runs, and false for a triple that
\* differs from the running timer's in the job, the sheet or the employee.
C14_IsRunningIffTripleMatches ==
  \A job \in JobIds : \A sheet \in Sheets : \A emp \in EmployeeIds :
    IF activeTimerRef = Null
    THEN ~isRunning(job, sheet, emp)
    ELSE /\ <<job, sheet, emp>> = keyOf(activeTimerRef) => isRunning(job, sheet, emp)
         /\ job # activeTimerRef.jobId => ~isRunning(job, sheet, emp)
         /\ sheet # activeTimerRef.sheetId => ~isRunning(job, sheet, emp)
         /\ emp # activeTimerRef.employeeId => ~isRunning(job, sheet, emp)

\* the render after the employee was changed while a timer runs: the timer's
\* sheet is running for the employee who started it, not for the one selected
C14_Witness ==
  /\ op.name = "setEmployee"
  /\ activeTimerRef # Null
  /\ activeTimerRef.jobId = jobId
  /\ activeTimerRef.employeeId # employeeId
  /\ isRunning(jobId, activeTimerRef.sheetId, activeTimerRef.employeeId)
  /\ ~isRunning(jobId, activeTimerRef.sheetId, employeeId)

(* ---------------------------------- C15 -------------------------------- *)

\* the largest item count percent is checked for
MaxTotal == 8

\* p is 100 * checked / total rounded to an integer, a half rounded up
IsRoundedPercent(p, checked, total) ==
  /\ p \in 0..100
  /\ 2 * total * p - total <= 200 * checked
  /\ 200 * checked < 2 * total * p + total

\* the items of the sheet that are checked now
CheckedItems(sheet) ==
  {i \in 1..Len(itemsOf(sheet)) :
     \E id \in DOMAIN checks[sheet] : id = itemsOf(sheet)[i].id /\ checks[sheet][id] = TRUE}

\* C15: in every reachable state the completion percent of a sheet is
\* 100 x (its items now checked) / (its items), rounded half up, an integer
\* in 0..100; percent gives that for every count up to MaxTotal items, and 0
\* for a sheet without items.
C15_PercentRoundedHalfUp ==
  /\ \A sheet \in Sheets :
       IsRoundedPercent(statsOf(sheet).pct, Cardinality(CheckedItems(sheet)),
                        Len(itemsOf(sheet)))
  /\ \A total \in 1..MaxTotal : \A checked \in 0..total :
       IsRoundedPercent(percent(checked, total), checked, total)
  /\ \A checked \in 0..MaxTotal : percent(checked, 0) = 0

\* 2 of 7 housewire items are checked (28.57 -> 29), 1 of 6 integration items
\* (16.67 -> 17), and the one E&E entry is an item unchecked again (0)
C15_Witness ==
  /\ Cardinality(CheckedItems("housewire")) = 2
  /\ housewireStats.pct = 29
  /\ Cardinality(CheckedItems("integration")) = 1
  /\ integrationStats.pct = 17
  /\ DOMAIN checks["ee"] # {}
  /\ eeStats.pct = 0

(* ---------------------------------- C16 -------------------------------- *)

\* the item of the sheet with this id is a flag item
IsFlagItem(sheet, id) ==
  \E i \in 1..Len(itemsOf(sheet)) : itemsOf(sheet)[i].id = id /\ itemsOf(sheet)[i].isFlag

\* the flag status a render shows for the sheet when the check maps are c
flaggedIn(c, sheet) == sheetStats(itemsOf(sheet), c[sheet]).flagged

\* C16: after every toggle a sheet is flagged exactly when one of its isFlag
\* items is checked.  Checking or unchecking a non-flag item leaves the flag
\* as it was, checking the flag item sets it, and unchecking the flag item
\* clears it in the same step.
C16_FlaggedIffFlagItemChecked ==
  [][op'.name = "toggle"
     => /\ \A sheet \in Sheets :
             statsOf(sheet).flagged'
               <=> (\E i \in CheckedItems(sheet)' : itemsOf(sheet)[i].isFlag)
        /\ ~IsFlagItem(op'.arg, op'.id)
             => flaggedIn(checks', op'.arg) = flaggedIn(checks, op'.arg)
        /\ IsFlagItem(op'.arg, op'.id) /\ op'.next
             => flaggedIn(checks', op'.arg)
        /\ IsFlagItem(op'.arg, op'.id) /\ ~op'.next
             => ~flaggedIn(checks', op'.arg)]_vars

\* the flag item of a sheet has just been unchecked while another item of the
\* sheet stays checked: the sheet is not flagged; another sheet, whose flag
\* item is checked, is
C16_Witness ==
  /\ op.name = "toggle"
  /\ IsFlagItem(op.arg, op.id)
  /\ ~op.next
  /\ CheckedItems(op.arg) # {}
  /\ ~statsOf(op.arg).flagged
  /\ \E sheet \in Sheets : sheet # op.arg /\ statsOf(sheet).flagged

(* ---------------------------------- C17 -------------------------------- *)

\* m is sec / 60 rounded to an integer, sec in thousandths of a second
IsRoundedMinutes(m, sec) ==
  /\ 60000 * (2 * m - 1) <= 2 * sec
  /\ 2 * sec < 60000 * (2 * m + 1)

\* the summary a render computes from the state it sees
summaryNow == computeRows(timeLog, jobId, activeTimerRef, now)

\* the places of the rows of the sheet and employee
RowsOf(rows, sheet, emp) ==
  {i \in 1..Len(rows) : rows[i].sheetId = sheet /\ rows[i].emp = emp}

\* C17: the summary of the current job has exactly one row for each (sheet,
\* employee) whose live time for that job is not zero, with minutes
\* round(liveSeconds / 60), the running timer's key included when its job is
\* the current one, and no row for a pair whose live time for the job is zero.
C17_SummaryRowsAreLiveTimes ==
  \A sheet \in Sheets : \A emp \in EmployeeIds :
    LET liveSec == live(<<jobId, sheet, emp>>)
        at == RowsOf(summaryNow, sheet, emp)
    IN  IF liveSec = 0 THEN at = {}
        ELSE /\ Cardinality(at) = 1
             /\ \A i \in at : IsRoundedMinutes(summaryNow[i].minutes, liveSec)

(* ---------------------------------- C18 -------------------------------- *)

\* row a comes before row b: its sheet id is lexicographically smaller, or
\* the sheet ids are equal and its employee id is smaller
SheetThenEmployee(a, b) ==
  \/ localeCompare(Chars(a.sheetId), Chars(b.sheetId)) = -1
  \/ /\ a.sheetId = b.sheetId
     /\ localeCompare(Chars(a.emp), Chars(b.emp)) = -1

\* C18: the summary rows are in the lexicographic order of sheet id
\* concatenated with employee id, the sheet first and then the employee, and
\* the summary of a state is the same sequence, holding every row once,
\* whatever the order in which the time log's entries were created and the
\* rows pushed.
C18_RowsSortedBySheetThenEmployee ==
  LET S == rowSet(timeLog, jobId, activeTimerRef, now)
  IN  /\ \A f \in Orders(S) : sortRows(f) = summaryNow
      /\ Len(summaryNow) = Cardinality(S)
      /\ {summaryNow[i] : i \in 1..Len(summaryNow)} = S
      /\ \A i, j \in 1..Len(summaryNow) :
           i < j => /\ SheetThenEmployee(summaryNow[i], summaryNow[j])
                    /\ localeCompare(Chars(summaryNow[i].sheetId) \o Chars(summaryNow[i].emp),
                                     Chars(summaryNow[j].sheetId) \o Chars(summaryNow[j].emp)) = -1

\* two rows of different sheets and employees, the first with the greater
\* employee id: the sheet decides the order
C18_Witness ==
  /\ Len(summaryNow) = 2
  /\ summaryNow[1].sheetId # summaryNow[2].sheetId
  /\ localeCompare(Chars(summaryNow[1].emp), Chars(summaryNow[2].emp)) = 1
  /\ \A i \in 1..2 : live(<<jobId, summaryNow[i].sheetId, summaryNow[i].emp>>) = ClockStepMs

(* ---------------------------------- C19 -------------------------------- *)

\* the minutes the rows show for the key of the running timer
activeMinutes(rows) ==
  {rows[i].minutes : i \in RowsOf(rows, activeTimerRef.sheetId, activeTimerRef.employeeId)}

\* C19: the summary is recomputed on demand and never served from the last
\* tick: in every render while a timer of the current job runs, renders caused
\* by a checkbox toggle included, the summary shows for the timer's key the
\* minutes of the live value that same render computes.
C19_SummaryFreshInEveryRender ==
  (/\ op.name \notin {"mount", "clockAdvance", "clockRegress"}
   /\ activeTimerRef # Null
   /\ activeTimerRef.jobId = jobId)
  => activeMinutes(timeSummaryRows) = activeMinutes(summaryNow)

(* ---------------------------------- C20 -------------------------------- *)

\* C20 as stated: completion state is kept per (job, sheet, employee); a
\* toggle under the selected job and employee does not change the checked
\* items, percent or flag of the same sheet under another job or employee.
C20_CompletionPerJobAndEmployee ==
  [][op'.name = "toggle"
     => \A job \in JobIds : \A emp \in EmployeeIds :
          <<job, emp>> # <<jobId, employeeId>>
            => /\ checkedMapFor(checks', job, op'.arg, emp)
                    = checkedMapFor(checks, job, op'.arg, emp)
               /\ statsFor(checks', job, op'.arg, emp)
                    = statsFor(checks, job, op'.arg, emp)]_vars

\* C20, amended: completion state is kept per sheet and shared by all jobs
\* and employees.  A toggle sets the item's entry in the one check map of its
\* sheet, which is what is shown for that sheet under every job and
\* employee, and leaves the other sheets' maps alone; selecting another job
\* or employee, and the effect that follows, change no sheet's checked items,
\* percent or flag: the newly selected job and employee show what the
\* previous ones showed.
C20_CompletionPerSheetOnly ==
  [][/\ op'.name = "toggle"
          => \A job \in JobIds : \A emp \in EmployeeIds : \A sheet \in Sheets :
               checkedMapFor(checks', job, sheet, emp)
                 = IF sheet = op'.arg THEN Put(checks[sheet], op'.id, op'.next)
                   ELSE checks[sheet]
     /\ op'.name \in {"setJob", "setEmployee", "effect"}
          => \A sheet \in Sheets :
               /\ checkedMapFor(checks', jobId', sheet, employeeId')
                    = checkedMapFor(checks, jobId, sheet, employeeId)
               /\ statsFor(checks', jobId', sheet, employeeId')
                    = statsFor(checks, jobId, sheet, employeeId)]_vars

\* another job has been selected after an item was checked: the sheet shows
\* the item as checked, and a percent above 0, under the new job
C20_Witness ==
  /\ op.name = "setJob"
  /\ jobId # jobs[1]
  /\ \E sheet \in Sheets :
       /\ CheckedItems(sheet) # {}
       /\ statsFor(checks, jobId, sheet, employeeId).pct > 0

(* ---------------------------------- C21 -------------------------------- *)

\* C21: toggle(sheet, itemId, checked) sets only that sheet's entry for
\* itemId to the given value.  Every other entry of the sheet is unchanged
\* and no entry but itemId's is added; the check maps, percent and flag of
\* the other two sheets are unchanged, also when they hold an entry for the
\* same item id.
C21_ToggleSetsOneEntry ==
  [][op'.name = "toggle"
     => /\ op'.id \in DOMAIN checks'[op'.arg]
        /\ checks'[op'.arg][op'.id] = op'.next
        /\ DOMAIN checks'[op'.arg] = DOMAIN checks[op'.arg] \cup {op'.id}
        /\ \A id \in DOMAIN checks[op'.arg] :
             id # op'.id => checks'[op'.arg][id] = checks[op'.arg][id]
        /\ \A sheet \in Sheets :
             sheet # op'.arg
               => /\ checks'[sheet] = checks[sheet]
                  /\ statsFor(checks', jobId', sheet, employeeId')
                       = statsFor(checks, jobId, sheet, employeeId)]_vars

\* the id of the first housewire item has just been checked on the
\* integration sheet, while housewire holds the same id unchecked
C21_Witness ==
  /\ op.name = "toggle"
  /\ op.arg = "integration"
  /\ op.id = housewireItems[1].id
  /\ op.next
  /\ checks["integration"][op.id]
  /\ op.id \in DOMAIN checks["housewire"]
  /\ ~checks["housewire"][op.id]
  /\ housewireStats.pct = 0

(* ---------------------------------- C22 -------------------------------- *)

\* the item ids of the static configuration
AllItemIds ==
  UNION {{itemsOf(sheet)[i].id : i \in 1..Len(itemsOf(sheet))} : sheet \in Sheets}

\* C22: an operation called with an identifier that is not part of the
\* static configuration fails with UnknownKey and leaves the check state,
\* the time log and the ref unchanged; here, toggle with an item id that no
\* sheet defines.
C22_UnknownKeyRejected ==
  [][(op'.name = "toggle" /\ op'.id \notin AllItemIds)
     => UNCHANGED <<checks, timeLog, activeTimerRef>>]_vars

(* ---------------------------------- C23 -------------------------------- *)

\* the time log has an entry for the key
HasEntry(log, k) ==
  /\ k[1] \in DOMAIN log
  /\ k[2] \in DOMAIN log[k[1]]
  /\ k[3] \in DOMAIN log[k[1]][k[2]]

\* C23: a time log entry is created only by a stop of a timer of its key
\* (stopTimer itself, or the stop inside startTimer or the context effect),
\* a key without an entry has committed seconds 0, and no operation removes
\* an entry.
C23_EntriesOnlyFromStops ==
  [][\A k \in Keys :
       /\ HasEntry(timeLog, k) => HasEntry(timeLog', k)
       /\ (HasEntry(timeLog', k) /\ ~HasEntry(timeLog, k))
            => (StopsRunning /\ keyOf(activeTimerRef) = k)
       /\ ~HasEntry(timeLog', k) => committedIn(timeLog', k) = 0]_vars

\* a stop has just created the entry of a second employee on a sheet whose
\* first employee's entry, ClockStepMs long, is still there
C23_Witness ==
  /\ op.name \in {"stopTimer", "startTimer", "effect"}
  /\ op.was # Null
  /\ HasEntry(timeLog, keyOf(op.was))
  /\ \E k \in Keys :
       /\ k[1] = op.was.jobId /\ k[2] = op.was.sheetId /\ k[3] # op.was.employeeId
       /\ HasEntry(timeLog, k)
       /\ committed(k) = ClockStepMs
  /\ \E k \in Keys : ~HasEntry(timeLog, k) /\ committed(k) = 0

(* ---------------------------------- C24 -------------------------------- *)

\* C24: a running interval ends only through the stop transition, called
\* directly or performed inside startTimer or the context effect: no tick,
\* toggle, select change or movement of the clock changes the timer in the
\* ref.  A stop while a timer runs always succeeds: it leaves the ref null.
C24_OnlyStopEndsInterval ==
  [][/\ (activeTimerRef # Null /\ activeTimerRef' # activeTimerRef)
          => op'.name \in {"stopTimer", "startTimer", "effect"}
     /\ (activeTimerRef # Null /\ op'.name \in {"stopTimer", "effect"})
          => activeTimerRef' = Null]_vars

\* a timer that an interval callback and a clock step left running has just
\* been stopped
C24_Witness ==
  /\ op.name = "stopTimer"
  /\ op.was # Null
  /\ activeTimerRef = Null
  /\ tick = 2
  /\ now - op.was.startMs = ClockStepMs

(* ---------------------------------- C26 -------------------------------- *)

\* what a render shows of a component nothing has happened to: no timer, an
\* empty time log, nothing checked, an empty summary
InitialView ==
  /\ activeTimerRef = Null
  /\ timeLog = EmptyObj
  /\ \A k \in Keys :
       /\ ~isRunning(k[1], k[2], k[3])
       /\ live(k) = 0
       /\ committed(k) = 0
  /\ \A sheet \in Sheets :
       /\ CheckedItems(sheet) = {}
       /\ statsOf(sheet).pct = 0
       /\ ~statsOf(sheet).flagged
  /\ timeSummaryRows = <<>>
  /\ summaryNow = <<>>

\* C26: the initial state is Idle with an empty time log and no item
\* checked: isRunning is false and live and committed are 0 for every key,
\* every sheet has percent 0 and is not flagged, and the summary is empty;
\* the same holds after the context effect has run on mount.
C26_InitialStateIdleAndEmpty ==
  [][op.name = "mount"
     => /\ InitialView
        /\ op'.name = "effect" => InitialView']_vars

\* the context effect has run on mount and found nothing to stop
C26_Witness ==
  /\ op.name = "effect"
  /\ op.was = Null
  /\ ~effectPending
  /\ tick = 0
  /\ jobId = jobs[1]
  /\ employeeId = employees[1]
  /\ InitialView

(* ---------------------------------- C27 -------------------------------- *)

C28_UpdaterAppliedOnce ==
  activeTimerRef # Null
  => LET deltaSec == deltaSecOf(activeTimerRef, now)
         once == stopUpdater(timeLog, activeTimerRef, deltaSec)
         prevAfter == prevAfterUpdater(timeLog, activeTimerRef, deltaSec)
         twice == stopUpdater(prevAfter, activeTimerRef, deltaSec)
     IN  /\ prevAfter = timeLog
         /\ twice = once

(* ---------------------------------- C29 -------------------------------- *)

\* C29: on each sheet the Stop button is enabled exactly when a timer runs
\* for (current job, that sheet, current employee) and the Start button
\* exactly when none does.  Through the buttons a stop is therefore issued
\* only while the timer of the selected job and employee runs, and
\* startTimer never for the key that is running.
C29_ButtonsFollowIsRunning ==
  [][/\ \A sheet \in Sheets :
          /\ ~stopDisabled(sheet) <=> runningIn(activeTimerRef, <<jobId, sheet, employeeId>>)
          /\ ~startDisabled(sheet) <=> ~runningIn(activeTimerRef, <<jobId, sheet, employeeId>>)
     /\ op'.name = "stopTimer"
          => /\ activeTimerRef # Null
             /\ keyOf(activeTimerRef) = <<jobId, activeTimerRef.sheetId, employeeId>>
             /\ activeTimerRef' = Null
     /\ op'.name = "startTimer"
          => ~runningIn(activeTimerRef, <<jobId, op'.arg, employeeId>>)]_vars

\* Start was clicked on a sheet while another sheet's timer ran: now the
\* Stop button of the new sheet alone is enabled, and its Start button is not
C29_Witness ==
  /\ op.name = "startTimer"
  /\ op.was # Null
  /\ activeTimerRef # Null
  /\ op.was.sheetId # activeTimerRef.sheetId
  /\ {sheet \in Sheets : ~stopDisabled(sheet)} = {activeTimerRef.sheetId}
  /\ {sheet \in Sheets : startDisabled(sheet)} = {activeTimerRef.sheetId}

(* ---------------------------------- C30 -------------------------------- *)

\* C30: startTimer, stopTimer, the interval callback and a change of the
\* selected job or employee, with the effect that follows it, leave the
\* check maps of all three sheets unchanged: every sheet shows the same
\* percent and flag after the operation as before it.
C30_TimerOpsLeaveChecks ==
  [][op'.name \in {"startTimer", "stopTimer", "tick", "setJob", "setEmployee", "effect"}
     => /\ checks' = checks
        /\ \A sheet \in Sheets :
             /\ statsFor(checks', jobId', sheet, employeeId').pct
                  = statsFor(checks, jobId, sheet, employeeId).pct
             /\ flaggedIn(checks', sheet) = flaggedIn(checks, sheet)]_vars

\* a timer was started with an item checked: the sheet's percent is still
\* above 0
C30_Witness ==
  /\ op.name = "startTimer"
  /\ activeTimerRef # Null
  /\ \E sheet \in Sheets :
       /\ CheckedItems(sheet) # {}
       /\ statsOf(sheet).pct > 0

====
